---- MODULE Spec2Model ----
(***************************************************************************)
(* TTS_CLIPBOARD_MP3 v0.6.7 (main.py): the job controller of class App.    *)
(*                                                                         *)
(* Two kinds of thread are modelled.  The UI thread runs the Tk event loop *)
(* and executes, one at a time and each to completion, the operator's      *)
(* handlers (read_now, generate_mp3, pause_job, stop_job,                  *)
(* save_and_apply_config, ...) and the callbacks registered with after().  *)
(* Every accepted trigger starts one worker thread; a worker runs the      *)
(* closure `worker` of read_now or of generate_mp3, one step per access to *)
(* shared state, and talks to the UI thread only through after() and the   *)
(* two threading.Event objects.                                            *)
(***************************************************************************)
EXTENDS Integers, Sequences, FiniteSets, TLC

\* Bounds of the model: the worker threads ever started, the chunks of a job's
\* text, and the chunks of a job's text where two jobs are started.
MaxJobs == 2
MaxChunks == 2
RaceChunks == 1

\* Bounds of the calls of the text utilities: the pieces of a text split, the
\* pieces of a name sanitized, and the highest number of a file in the
\* output folder.
MaxPieces == 3
MaxNameParts == 4
MaxFiles == 4

\* Program constants.
MinChunkChars == 300
ReadChunkFloor == 800
RenderScale == 95
DefaultMaxLen == 120

Jobs == 1..MaxJobs

Max(a, b) == IF a >= b THEN a ELSE b
Min(a, b) == IF a <= b THEN a ELSE b

---------------------------------------------------------------------------
\* Strings.  Only the operations the handlers apply to configuration strings
\* are needed: str.strip(), str.lower() and `x or default`.

Strip(s) == IF s = " " THEN "" ELSE IF s = " gtts " THEN "gtts" ELSE s

Lower(s) == IF s = "GTTS" THEN "gtts" ELSE IF s = "EDGE" THEN "edge" ELSE s

OrElse(s, d) == IF s = "" THEN d ELSE s

\* The voice catalogue of the offline engine (getProperty("voices")), in order.
VoiceNames == <<"Maria", "Daniel">>

VoiceSet == {VoiceNames[i] : i \in 1..Len(VoiceNames)}

\* Path.mkdir(parents=True, exist_ok=True): fails for a path that cannot be made.
MkdirOk(dir) == dir # "dirRO"

\* App.TLD_OPTIONS.get(label, "com.br")
TldOf(label) ==
    IF label = "pt-BR (padrao)" THEN "com.br"
    ELSE IF label = "pt (alternativo)" THEN "pt"
    ELSE IF label = "com (alternativo)" THEN "com"
    ELSE "com.br"

---------------------------------------------------------------------------
\* Configuration.

\* AppConfig as load_config() returns it from a file written by an earlier run
\* (output_dir already chosen).
LoadedCfg ==
    [exclude_first_line |-> FALSE, output_dir |-> "dirA",
     mp3_backend |-> "edge", mp3_voice |-> "pt-BR-FranciscaNeural",
     mp3_rate |-> "+0%", mp3_pitch |-> "+0Hz",
     gt_tld_label |-> "pt-BR (padrao)", gt_speed |-> "Normal",
     read_voice_name |-> "", read_rate |-> 175, chunk_max_chars |-> 1100]

\* What the operator can put in the widgets of the settings tab (the output
\* directory has its own dialog, browse_outdir).
StagedInputs ==
    { [exclude_first_line |-> TRUE,
       mp3_backend |-> "gtts", mp3_voice |-> "pt-BR-AntonioNeural",
       mp3_rate |-> "+20%", mp3_pitch |-> "+5Hz",
       gt_tld_label |-> "pt (alternativo)", gt_speed |-> "Lenta",
       read_voice_name |-> "Daniel", read_rate |-> 220, chunk_max_chars |-> 600] }

DirInputs == {"dirB", "dirRO"}

\* The tk variables *_staged as _build_ui creates them from self.cfg.
StagedFromCfg(c, od) ==
    [exclude_first_line |-> c.exclude_first_line,
     output_dir |-> OrElse(c.output_dir, od),
     mp3_backend |-> c.mp3_backend, mp3_voice |-> c.mp3_voice,
     mp3_rate |-> c.mp3_rate, mp3_pitch |-> c.mp3_pitch,
     gt_tld_label |-> c.gt_tld_label, gt_speed |-> c.gt_speed,
     read_voice_name |-> OrElse(c.read_voice_name, "(carregando...)"),
     read_rate |-> c.read_rate, chunk_max_chars |-> c.chunk_max_chars]

\* The fields save_and_apply_config copies from the staged variables.
AppliedFromStaged(s, outdir) ==
    [exclude_first_line |-> s.exclude_first_line,
     output_dir |-> outdir,
     mp3_backend |-> Lower(OrElse(Strip(s.mp3_backend), "edge")),
     mp3_voice |-> OrElse(Strip(s.mp3_voice), "pt-BR-FranciscaNeural"),
     mp3_rate |-> OrElse(Strip(s.mp3_rate), "+0%"),
     mp3_pitch |-> OrElse(Strip(s.mp3_pitch), "+0Hz"),
     gt_tld_label |-> s.gt_tld_label, gt_speed |-> s.gt_speed,
     read_voice_name |-> s.read_voice_name,
     read_rate |-> s.read_rate, chunk_max_chars |-> s.chunk_max_chars]

---------------------------------------------------------------------------
\* The offline engine handle self._py_engine; stopped says that stop() was
\* called on the engine the handle names.

NoEngine == [alive |-> FALSE, wpm |-> 0, voice |-> "none", stopped |-> FALSE]

\* _apply_pyttsx3_settings_from_cfg on engine e with configuration c.
ApplySettings(e, c) ==
    IF ~e.alive THEN e
    ELSE [e EXCEPT !.wpm = c.read_rate,
                   !.voice = IF c.read_voice_name \in VoiceSet
                             THEN c.read_voice_name ELSE @]

\* _load_voices_into_ui: the staged voice name is replaced when the catalogue
\* does not hold it.
LoadVoices(s, c) ==
    IF s.read_voice_name \in VoiceSet THEN s
    ELSE [s EXCEPT !.read_voice_name =
              IF c.read_voice_name \in VoiceSet THEN c.read_voice_name
              ELSE VoiceNames[1]]

---------------------------------------------------------------------------
\* State.

VARIABLES
    pyttsx3,            \* the module pyttsx3 was imported (else None)
    edge_tts,           \* the module edge_tts was imported (else None)
    cfg,                \* self.cfg, the applied configuration
    out_dir,            \* self.out_dir
    staged,             \* the tk variables var_*_staged
    py_engine,          \* self._py_engine
    is_busy,            \* self._is_busy
    pause_event,        \* self._pause_event.is_set()
    stop_event,         \* self._stop_event.is_set()
    current_job,        \* self._current_job
    restart_after_stop, \* self._restart_after_stop
    afterQ,             \* callbacks registered with after(), oldest first
    workers,            \* the worker threads, by order of their trigger
    call,               \* the call of a text utility in progress
    dialog              \* the error dialog of save_and_apply_config that is open

vars == <<pyttsx3, edge_tts, cfg, out_dir, staged, py_engine, is_busy,
          pause_event, stop_event, current_job, restart_after_stop,
          afterQ, workers, call, dialog>>

\* The controller and its threads.
appVars == <<pyttsx3, edge_tts, cfg, out_dir, staged, py_engine, is_busy,
             pause_event, stop_event, current_job, restart_after_stop,
             afterQ, workers, dialog>>

\* What the handlers of the job controls and the threads leave alone.
auxVars == <<call, dialog>>

envVars == <<pyttsx3, edge_tts>>
cfgVars == <<cfg, out_dir, staged>>
flagVars == <<pause_event, stop_event, current_job, restart_after_stop>>

\* A callback handed to after(ms, f): t names f, a is its argument, d says
\* that ms > 0 (the timer is due later than the after(0) ones).
Cb(t, a) == [t |-> t, a |-> a, d |-> FALSE]
CbLater(t, a) == [t |-> t, a |-> a, d |-> TRUE]

\* The closure of a job: the values its worker captured at the trigger.
NoSnap == [backend |-> "", voice |-> "", rate |-> "", pitch |-> "",
           tld |-> "", slow |-> FALSE, ok_ff |-> FALSE, out_dir |-> "",
           bound |-> 0, exclude |-> FALSE]

\* The parameters a chunk was synthesized or spoken with.
NoUse == [backend |-> "", voice |-> "", rate |-> "", pitch |-> "",
          tld |-> "", slow |-> FALSE, wpm |-> 0]

\* A worker thread: its position pc, its loop variables idx and total, its
\* closure snap, and the record of what it did (outcome reported,
\* concatenation run, output file written, configuration and engine at its
\* trigger, parameters of its last chunk, progress values posted, stop_job
\* accepted before its outcome was decided, stop_job accepted while it was
\* blocked at the pause gate, engine restarts its success report registered,
\* stop_job accepted at any time of its life, warnings of its result text,
\* a widget method called by the thread itself, a stop_job accepted before
\* the outcome of a render job was decided that called the engine's stop(),
\* one accepted before the outcome of a speak job was decided that did not
\* call it although there was an engine, calls of ffmpeg_status() for the
\* job, concatenation functions called in order, the TemporaryDirectory of
\* the parts exists).
NoWorker ==
    [kind |-> "none", pc |-> "none", idx |-> 0, total |-> 0, snap |-> NoSnap,
     outcome |-> "none", concat |-> FALSE, output |-> FALSE,
     trig |-> LoadedCfg, trigEngine |-> NoEngine, used |-> NoUse,
     posts |-> <<>>, stopAcc |-> FALSE, stopPaused |-> FALSE, reinits |-> 0,
     stopSeen |-> FALSE, extra |-> {}, direct |-> FALSE,
     engStop |-> FALSE, engSkip |-> FALSE,
     probes |-> 0, paths |-> <<>>, td |-> FALSE]

\* The slot of a thread that returned.
Gone == [NoWorker EXCEPT !.kind = "gone", !.pc = "gone"]

Started(w) == workers[w].kind # "none"
Live(w) == workers[w].kind \in {"read", "gen"}
LiveJobs == {w \in Jobs : Live(w)}

\* Event.set() wakes every thread blocked in Event.wait().
Wake(ws) ==
    [w \in Jobs |-> IF ws[w].pc = "blocked" THEN [ws[w] EXCEPT !.pc = "chk2"]
                    ELSE ws[w]]

\* _set_progress: the value is clamped to 0..100.
SetProgress(pct) == Max(0, Min(100, pct))

\* pyttsx3.init(): a new engine, whose rate _reinit_pyttsx3 sets at once.
FreshEngine == [alive |-> TRUE, wpm |-> 0, voice |-> "default", stopped |-> FALSE]

\* A reinit that stops the handle it holds and keeps it: no engine is
\* constructed while one exists.
ReinitKeep(ok, e, c, s, b) ==
    IF ~pyttsx3 THEN [engine |-> e, staged |-> s, busy |-> b]
    ELSE IF ok THEN [engine |-> IF e.alive
                                THEN ApplySettings([e EXCEPT !.stopped = TRUE], c)
                                ELSE ApplySettings(FreshEngine, c),
                     staged |-> LoadVoices(s, c), busy |-> FALSE]
    ELSE [engine |-> NoEngine, staged |-> s, busy |-> b]

\* _reinit_pyttsx3 run on engine e, configuration c, staged values s and busy
\* flag b; ok says that pyttsx3.init() and the calls after it did not raise.
\* Gives the new engine, staged values and busy flag.
Reinit(ok, e, c, s, b) ==
    IF ~pyttsx3 THEN [engine |-> e, staged |-> s, busy |-> b]
    ELSE IF ok THEN [engine |-> ApplySettings(FreshEngine, c),
                     staged |-> LoadVoices(s, c), busy |-> FALSE]
    ELSE [engine |-> NoEngine, staged |-> s, busy |-> b]

\* _load_cfg_into_ui_staged
LoadCfgIntoStaged(s, c, od) ==
    [StagedFromCfg(c, od) EXCEPT
        !.read_voice_name = IF c.read_voice_name # "" THEN c.read_voice_name
                            ELSE s.read_voice_name]

\* The state once App.__init__ has returned and the start-up callbacks it
\* registers (_init_pyttsx3, _load_cfg_into_ui_staged) have run, when
\* load_config() returned c.
InitFrom(c) ==
    /\ pyttsx3 \in BOOLEAN
    /\ edge_tts \in BOOLEAN
    /\ cfg = c
    /\ out_dir = c.output_dir
    /\ \E ok \in BOOLEAN :
         LET s0 == StagedFromCfg(c, c.output_dir)
             r == Reinit(ok, NoEngine, c, s0, FALSE)
         IN  /\ py_engine = r.engine
             /\ staged = LoadCfgIntoStaged(r.staged, c, c.output_dir)
    /\ is_busy = FALSE
    /\ pause_event = TRUE
    /\ stop_event = FALSE
    /\ current_job = "idle"
    /\ restart_after_stop = FALSE
    /\ afterQ = <<>>
    /\ workers = [w \in Jobs |-> NoWorker]
    /\ dialog = ""

AppInit == InitFrom(LoadedCfg)

\* No call of a text utility is in progress.
Init == AppInit /\ call = [fn |-> "none"]

\* The first worker slot not yet used.
NextJob == CHOOSE w \in Jobs : ~Started(w) /\ \A v \in Jobs : v < w => Started(v)

CanStart == \E w \in Jobs : ~Started(w)

---------------------------------------------------------------------------
\* Handlers run by the UI thread on the operator's events.  A handler that
\* returns at its first guard changes nothing and is a stuttering step.  The
\* error dialog is modal: while it is open the operator's events reach no
\* handler of the window; callbacks and worker threads go on.

\* A settings tab whose widgets were bound to the applied configuration
\* instead of the staged variables: an edit takes effect at once.
edit_applied ==
    /\ dialog = ""
    /\ \E inp \in StagedInputs :
         /\ staged' = [f \in DOMAIN staged |->
                          IF f = "output_dir" THEN staged.output_dir ELSE inp[f]]
         /\ staged' # staged
    /\ cfg' = AppliedFromStaged(staged', cfg.output_dir)
    /\ UNCHANGED <<auxVars, envVars, out_dir, py_engine, is_busy, flagVars, afterQ, workers>>

\* The operator changes widgets of the settings tab.
edit_staged ==
    /\ dialog = ""
    /\ \E inp \in StagedInputs :
         /\ staged' = [f \in DOMAIN staged |->
                          IF f = "output_dir" THEN staged.output_dir ELSE inp[f]]
         /\ staged' # staged
    /\ UNCHANGED <<auxVars, envVars, cfg, out_dir, py_engine, is_busy, flagVars, afterQ, workers>>

browse_outdir ==
    /\ dialog = ""
    /\ ~is_busy
    /\ \E chosen \in DirInputs :
         /\ staged' = [staged EXCEPT !.output_dir = chosen]
         /\ staged' # staged
    /\ UNCHANGED <<auxVars, envVars, cfg, out_dir, py_engine, is_busy, flagVars, afterQ, workers>>

\* The commit that copies the staged values before it looks at the output
\* directory: a rejected commit leaves the other fields applied.
save_unvalidated ==
    /\ dialog = ""
    /\ ~is_busy
    /\ LET outdir == Strip(staged.output_dir) IN
       IF outdir = "" \/ ~MkdirOk(outdir)
       THEN /\ dialog' = (IF outdir = "" THEN "empty" ELSE "invalid")
            /\ cfg' = AppliedFromStaged(staged, cfg.output_dir)
            /\ UNCHANGED <<out_dir, py_engine, staged, is_busy>>
       ELSE \E ok \in BOOLEAN :
            LET c == AppliedFromStaged(staged, outdir)
                r == Reinit(ok, py_engine, c, staged, is_busy)
            IN  /\ cfg' = c
                /\ out_dir' = outdir
                /\ py_engine' = r.engine
                /\ staged' = r.staged
                /\ is_busy' = r.busy
                /\ dialog' = dialog
    /\ UNCHANGED <<call, envVars, flagVars, afterQ, workers>>

\* A commit whose output directory is empty or cannot be made opens
\* messagebox.showerror and waits in it; the handler returns when the
\* operator closes the dialog (dismiss_dialog).
save_and_apply_config ==
    /\ dialog = ""
    /\ ~is_busy
    /\ LET outdir == Strip(staged.output_dir) IN
       IF outdir = "" \/ ~MkdirOk(outdir)
       THEN /\ dialog' = (IF outdir = "" THEN "empty" ELSE "invalid")
            /\ UNCHANGED <<cfg, out_dir, py_engine, staged, is_busy>>
       ELSE \E ok \in BOOLEAN :
            LET c == AppliedFromStaged(staged, outdir)
                r == Reinit(ok, py_engine, c, staged, is_busy)
            IN  /\ cfg' = c
                /\ out_dir' = outdir
                /\ py_engine' = r.engine
                /\ staged' = r.staged
                /\ is_busy' = r.busy
                /\ dialog' = dialog
    /\ UNCHANGED <<call, envVars, flagVars, afterQ, workers>>

\* The operator closes the error dialog: showerror returns, the failure is
\* logged and save_and_apply_config returns.
dismiss_dialog ==
    /\ dialog # ""
    /\ dialog' = ""
    /\ UNCHANGED <<call, envVars, cfgVars, py_engine, is_busy, flagVars, afterQ, workers>>

restart_engine ==
    /\ dialog = ""
    /\ ~is_busy
    /\ pyttsx3
    /\ \E ok \in BOOLEAN :
         LET r == Reinit(ok, py_engine, cfg, staged, is_busy)
         IN  /\ py_engine' = r.engine
             /\ staged' = r.staged
             /\ is_busy' = r.busy
    /\ UNCHANGED <<auxVars, envVars, cfg, out_dir, flagVars, afterQ, workers>>

\* A pause that halts the chunk in progress: the worker inside a backend or
\* engine call is sent to the gate at once.
pause_interrupt ==
    /\ dialog = ""
    /\ is_busy
    /\ IF pause_event
       THEN /\ pause_event' = FALSE
            /\ workers' = [w \in Jobs |->
                             IF workers[w].pc \in {"say", "synth"}
                             THEN [workers[w] EXCEPT !.pc = "blocked"]
                             ELSE workers[w]]
       ELSE pause_event' = TRUE /\ workers' = Wake(workers)
    /\ UNCHANGED <<auxVars, envVars, cfgVars, py_engine, is_busy, stop_event, current_job,
                   restart_after_stop, afterQ>>

pause_job ==
    /\ dialog = ""
    /\ is_busy
    /\ IF pause_event
       THEN pause_event' = FALSE /\ workers' = workers
       ELSE pause_event' = TRUE /\ workers' = Wake(workers)
    /\ UNCHANGED <<auxVars, envVars, cfgVars, py_engine, is_busy, stop_event, current_job,
                   restart_after_stop, afterQ>>

\* if self._current_job == "read" and self._py_engine is not None:
\*     self._py_engine.stop()
EngineStopCalled == current_job = "read" /\ py_engine.alive

stop_job ==
    /\ dialog = ""
    /\ is_busy
    /\ restart_after_stop' = TRUE
    /\ stop_event' = TRUE
    /\ pause_event' = TRUE
    /\ workers' = [w \in Jobs |->
                     IF Live(w) /\ workers[w].outcome = "none"
                     THEN [Wake(workers)[w] EXCEPT
                              !.stopAcc = TRUE,
                              !.stopSeen = TRUE,
                              !.stopPaused = @ \/ workers[w].pc = "blocked",
                              !.engStop = @ \/ (workers[w].kind = "gen"
                                                  /\ EngineStopCalled),
                              !.engSkip = @ \/ (workers[w].kind = "read"
                                                  /\ py_engine.alive
                                                  /\ ~EngineStopCalled)]
                     ELSE IF Live(w)
                     THEN [workers[w] EXCEPT !.stopSeen = TRUE]
                     ELSE workers[w]]
    /\ py_engine' = IF EngineStopCalled THEN [py_engine EXCEPT !.stopped = TRUE]
                    ELSE py_engine
    /\ UNCHANGED <<auxVars, envVars, cfgVars, is_busy, current_job, afterQ>>

\* What read_now computes from configuration c before it starts its worker.
ReadSnapshot(c) ==
    [NoSnap EXCEPT
        !.bound = Max(MinChunkChars, Max(ReadChunkFloor, c.chunk_max_chars)),
        !.exclude = c.exclude_first_line]

\* What generate_mp3 copies from configuration c and output directory od
\* before it starts its worker.
GenSnapshot(c, od, ok_ff) ==
    [backend |-> Lower(Strip(OrElse(c.mp3_backend, "edge"))),
     voice |-> Strip(OrElse(c.mp3_voice, "pt-BR-FranciscaNeural")),
     rate |-> Strip(OrElse(c.mp3_rate, "+0%")),
     pitch |-> Strip(OrElse(c.mp3_pitch, "+0Hz")),
     tld |-> TldOf(c.gt_tld_label),
     slow |-> (c.gt_speed = "Lenta"),
     ok_ff |-> ok_ff,
     out_dir |-> od,
     bound |-> Max(MinChunkChars, c.chunk_max_chars),
     exclude |-> c.exclude_first_line]

\* The worker thread a trigger starts, with the values the closure captures.
\* The trigger also registers _reset_progress, the first progress value.
NewReadWorker(total) ==
    [NoWorker EXCEPT
        !.kind = "read", !.pc = "start", !.idx = 1, !.total = total,
        !.posts = <<SetProgress(0)>>,
        !.snap = ReadSnapshot(cfg),
        !.trig = cfg,
        !.trigEngine = ApplySettings(py_engine, cfg)]

NewGenWorker(total, ok_ff) ==
    [NoWorker EXCEPT
        !.kind = "gen", !.pc = "start", !.idx = 1, !.total = total,
        !.posts = <<SetProgress(0)>>,
        !.snap = GenSnapshot(cfg, out_dir, ok_ff),
        !.probes = 1,
        !.trig = cfg]

\* The text box holds non-blank text (else the trigger returns); total is the
\* number of chunks smart_split_text cuts it into, ok_ff what ffmpeg_status()
\* finds.
read_now(total) ==
    /\ dialog = ""
    /\ ~is_busy
    /\ pyttsx3 /\ py_engine.alive
    /\ CanStart
    /\ stop_event' = FALSE
    /\ pause_event' = TRUE
    /\ current_job' = "read"
    /\ workers' = [Wake(workers) EXCEPT ![NextJob] = NewReadWorker(total)]
    /\ UNCHANGED <<auxVars, envVars, cfgVars, py_engine, is_busy, restart_after_stop, afterQ>>

generate_mp3(total, ok_ff) ==
    /\ dialog = ""
    /\ ~is_busy
    /\ CanStart
    /\ stop_event' = FALSE
    /\ pause_event' = TRUE
    /\ current_job' = "gen"
    /\ workers' = [Wake(workers) EXCEPT ![NextJob] = NewGenWorker(total, ok_ff)]
    /\ UNCHANGED <<auxVars, envVars, cfgVars, py_engine, is_busy, restart_after_stop, afterQ>>

---------------------------------------------------------------------------
\* Callbacks run by the UI thread.  The queue holds the callbacks that change
\* the controller's state; the progress values posted with after() change the
\* progress bar alone and are recorded, in order, in the posting job's `posts`.
\* Timers fire in the order of their due time: an after(0) callback never
\* overtakes an older one, and may overtake an older timer that was
\* registered with a delay.

Runnable(i) ==
    /\ i \in 1..Len(afterQ)
    /\ \A k \in 1..(i - 1) : afterQ[k].d
    /\ (i = 1 \/ ~afterQ[i].d)

Without(q, i) == [k \in 1..(Len(q) - 1) |-> IF k < i THEN q[k] ELSE q[k + 1]]

Takes(i, t) == Runnable(i) /\ afterQ[i].t = t /\ afterQ' = Without(afterQ, i)

cb_set_busy ==
    /\ \E i \in 1..Len(afterQ) :
         /\ Takes(i, "set_busy")
         /\ is_busy' = (afterQ[i].a = 1)
    /\ UNCHANGED <<auxVars, envVars, cfgVars, py_engine, flagVars, workers>>

\* The lambda of read_now.worker on success, whose _set_busy(False) is the
\* part that changes the controller.
cb_read_done ==
    /\ \E i \in 1..Len(afterQ) : Takes(i, "read_done")
    /\ is_busy' = FALSE
    /\ UNCHANGED <<auxVars, envVars, cfgVars, py_engine, flagVars, workers>>

cb_reinit_pyttsx3 ==
    /\ \E i \in 1..Len(afterQ) : Takes(i, "reinit_pyttsx3")
    /\ \E ok \in BOOLEAN :
         LET r == Reinit(ok, py_engine, cfg, staged, is_busy)
         IN  /\ py_engine' = r.engine
             /\ staged' = r.staged
             /\ is_busy' = r.busy
    /\ UNCHANGED <<auxVars, envVars, cfg, out_dir, flagVars, workers>>

---------------------------------------------------------------------------
\* Worker threads.  pc is the position of the thread in its closure; a step
\* is one access to the state the threads share (a flag, the engine, the
\* callback queue) together with the thread-local code around it.

At(w, kind, pc) == workers[w].kind = kind /\ workers[w].pc = pc

Goto(w, pc) == workers' = [workers EXCEPT ![w].pc = pc]

Post(cb) == afterQ' = Append(afterQ, cb)

\* int((idx / total) * scale): for the totals within the bounds the float
\* product truncates to the exact quotient.
Pct(idx, total, scale) == (idx * scale) \div total

\* The parameters the offline engine speaks a chunk with.
SpeakUse(e) == [NoUse EXCEPT !.backend = "pyttsx3", !.voice = e.voice, !.wpm = e.wpm]

\* The parameters generate_mp3.worker synthesizes a chunk with: edge-tts when
\* it is the backend and is installed, gTTS otherwise.
SynthUse(sn) ==
    IF sn.backend = "edge" /\ edge_tts
    THEN [NoUse EXCEPT !.backend = "edge", !.voice = sn.voice, !.rate = sn.rate,
                       !.pitch = sn.pitch]
    ELSE [NoUse EXCEPT !.backend = "gtts", !.tld = sn.tld, !.slow = sn.slow]

\* A `with` block that leaves its TemporaryDirectory in place.
KeepTd(rec) == rec

\* The end of `with tempfile.TemporaryDirectory() as td`, by return or by
\* exception: the directory and the part files in it are removed.
LeaveTry(rec) == [rec EXCEPT !.td = FALSE]

\* The thread leaves the body of its try statement: the callbacks cbs of the
\* branch taken are registered and _end_job_cleanup is next.
Finish(w, outcome, cbs, rec) ==
    /\ afterQ' = afterQ \o cbs
    /\ workers' = [workers EXCEPT ![w] = [LeaveTry(rec) EXCEPT !.pc = "cleanup",
                                                               !.outcome = outcome]]

\* The `except Exception` branch of either worker.
Failed(w, rec) == Finish(w, "failed", <<Cb("set_busy", 0)>>, rec)

\* ---- read_now.worker ----

R_start(w) ==
    /\ At(w, "read", "start")
    /\ Post(Cb("set_busy", 1))
    /\ Goto(w, "apply")
    /\ UNCHANGED <<auxVars, envVars, cfgVars, py_engine, is_busy, flagVars>>

\* _apply_pyttsx3_settings_from_cfg returns, or setProperty raises.
R_apply(w) ==
    /\ At(w, "read", "apply")
    /\ \/ /\ py_engine' = ApplySettings(py_engine, cfg)
          /\ Goto(w, "chk1")
          /\ afterQ' = afterQ
       \/ /\ py_engine.alive
          /\ py_engine' = py_engine
          /\ Failed(w, workers[w])
    /\ UNCHANGED <<auxVars, envVars, cfgVars, is_busy, flagVars>>

R_chk1(w) ==
    /\ At(w, "read", "chk1")
    /\ IF workers[w].idx > workers[w].total \/ stop_event
       THEN Goto(w, "after")
       ELSE Goto(w, "gate")
    /\ UNCHANGED <<auxVars, envVars, cfgVars, py_engine, is_busy, flagVars, afterQ>>

R_gate(w) ==
    /\ At(w, "read", "gate")
    /\ IF pause_event THEN Goto(w, "chk2") ELSE Goto(w, "blocked")
    /\ UNCHANGED <<auxVars, envVars, cfgVars, py_engine, is_busy, flagVars, afterQ>>

R_chk2(w) ==
    /\ At(w, "read", "chk2")
    /\ IF stop_event THEN Goto(w, "after") ELSE Goto(w, "begin")
    /\ UNCHANGED <<auxVars, envVars, cfgVars, py_engine, is_busy, flagVars, afterQ>>

\* The progress value is posted and say(chunk) queues the utterance on the
\* engine self._py_engine names now; with no engine the call raises.
R_begin(w) ==
    /\ At(w, "read", "begin")
    /\ LET p == SetProgress(Pct(workers[w].idx, workers[w].total, 100))
           rec == [workers[w] EXCEPT !.posts = Append(@, p)]
       IN  IF py_engine.alive
           THEN /\ workers' = [workers EXCEPT
                                  ![w] = [rec EXCEPT !.pc = "say",
                                                     !.used = SpeakUse(py_engine)]]
                /\ afterQ' = afterQ
           ELSE Failed(w, rec)
    /\ UNCHANGED <<auxVars, envVars, cfgVars, py_engine, is_busy, flagVars>>

\* runAndWait() returns, or the engine raises.
R_say(w) ==
    /\ At(w, "read", "say")
    /\ \/ /\ py_engine.alive
          /\ workers' = [workers EXCEPT ![w].pc = "chk1", ![w].idx = @ + 1]
          /\ afterQ' = afterQ
       \/ Failed(w, workers[w])
    /\ UNCHANGED <<auxVars, envVars, cfgVars, py_engine, is_busy, flagVars>>

\* The test of the stop flag after the loop, which picks the report.
R_after(w) ==
    /\ At(w, "read", "after")
    /\ IF stop_event
       THEN Finish(w, "cancelled", <<Cb("set_busy", 0)>>, workers[w])
       ELSE Finish(w, "completed", <<Cb("read_done", 0)>>,
                   [workers[w] EXCEPT !.posts = Append(@, SetProgress(100))])
    /\ UNCHANGED <<auxVars, envVars, cfgVars, py_engine, is_busy, flagVars>>

\* ---- generate_mp3.worker ----

\* A progress value on the whole scale, as read_now.worker computes it.
GenPctFull(idx, total) == Pct(idx, total, 100)

\* gen_pct = int((idx / total) * 95)
GenPct(idx, total) == Pct(idx, total, RenderScale)

\* The callbacks of the success report that change the controller, in the
\* order of their registration: _set_busy(False, "OK: ...") and
\* _reinit_pyttsx3.  GenDoneNoReinit is the report of a worker that leaves
\* the engine as it is.
GenDoneNoReinit == <<Cb("set_busy", 0)>>

GenDoneCbs == <<Cb("set_busy", 0), Cb("reinit_pyttsx3", 0)>>

\* The warnings appended to `extra`, the text DoneDialog shows.  DoneExtraBare
\* is the text of a report that says nothing of the backend used.
DoneExtraBare(sn) == IF ~sn.ok_ff THEN {"FFmpeg"} ELSE {}

DoneExtra(sn) ==
    (IF sn.backend = "edge" /\ ~edge_tts THEN {"edge-tts"} ELSE {})
        \cup (IF ~sn.ok_ff THEN {"FFmpeg"} ELSE {})

\* raise RuntimeError("Cancelado pelo usuário."), caught by the worker's
\* `except Exception`, which reports the cancellation.
Cancelled(w) == Finish(w, "cancelled", <<Cb("set_busy", 0)>>, workers[w])

G_start(w) ==
    /\ At(w, "gen", "start")
    /\ Post(Cb("set_busy", 1))
    /\ workers' = [workers EXCEPT ![w].pc = "chk1", ![w].td = TRUE]
    /\ UNCHANGED <<auxVars, envVars, cfgVars, py_engine, is_busy, flagVars>>

\* The head of the chunk loop and its first test of the stop flag; past the
\* last chunk, the progress value of the concatenation step is posted.
G_chk1(w) ==
    /\ At(w, "gen", "chk1")
    /\ IF workers[w].idx > workers[w].total
       THEN /\ workers' = [workers EXCEPT
                              ![w].pc = "concat",
                              ![w].posts = Append(@, SetProgress(RenderScale))]
            /\ afterQ' = afterQ
       ELSE IF stop_event
       THEN Cancelled(w)
       ELSE Goto(w, "gate") /\ afterQ' = afterQ
    /\ UNCHANGED <<auxVars, envVars, cfgVars, py_engine, is_busy, flagVars>>

G_gate(w) ==
    /\ At(w, "gen", "gate")
    /\ IF pause_event THEN Goto(w, "chk2") ELSE Goto(w, "blocked")
    /\ UNCHANGED <<auxVars, envVars, cfgVars, py_engine, is_busy, flagVars, afterQ>>

\* The second test of the stop flag; when it is clear the progress value is
\* posted and the backend call for the chunk begins.
G_chk2(w) ==
    /\ At(w, "gen", "chk2")
    /\ IF stop_event
       THEN Cancelled(w)
       ELSE /\ workers' = [workers EXCEPT
                              ![w].pc = "synth",
                              ![w].posts = Append(@, SetProgress(GenPct(workers[w].idx,
                                                            workers[w].total))),
                              ![w].used = SynthUse(workers[w].snap)]
            /\ afterQ' = afterQ
    /\ UNCHANGED <<auxVars, envVars, cfgVars, py_engine, is_busy, flagVars>>

\* The backend call returns with the part written, or raises.
G_synth(w) ==
    /\ At(w, "gen", "synth")
    /\ \/ /\ workers' = [workers EXCEPT ![w].pc = "chk1", ![w].idx = @ + 1]
          /\ afterQ' = afterQ
       \/ Failed(w, workers[w])
    /\ UNCHANGED <<auxVars, envVars, cfgVars, py_engine, is_busy, flagVars>>

\* if ok_ff: concat_mp3_ffmpeg(...) else: concat_mp3_naive(...)
ConcatPath(sn) == IF sn.ok_ff THEN "ffmpeg" ELSE "naive"

\* The success report of a render job whose concatenation rec has run.
GenDone(w, rec) ==
    Finish(w, "completed", GenDoneCbs,
           [rec EXCEPT !.output = TRUE,
                       !.posts = Append(@, SetProgress(100)),
                       !.reinits = @ + 1,
                       !.extra = DoneExtra(rec.snap)])

\* A concatenation step that calls concat_mp3_naive when concat_mp3_ffmpeg
\* has raised.
G_concat_fallback(w) ==
    /\ At(w, "gen", "concat")
    /\ LET first == [workers[w] EXCEPT !.concat = TRUE,
                                       !.paths = Append(@, ConcatPath(workers[w].snap))]
           second == [first EXCEPT !.paths = Append(@, "naive")]
       IN  \/ GenDone(w, first)
           \/ IF workers[w].snap.ok_ff
              THEN GenDone(w, second) \/ Failed(w, second)
              ELSE Failed(w, first)
    /\ UNCHANGED <<auxVars, envVars, cfgVars, py_engine, is_busy, flagVars>>

\* concat_mp3_ffmpeg or concat_mp3_naive returns with the output written and
\* the success report follows (progress 100, _set_busy(False) and
\* _reinit_pyttsx3 are registered), or the concatenation raises (ffmpeg
\* exits non-zero or cannot be run, a file cannot be read or written).
G_concat(w) ==
    /\ At(w, "gen", "concat")
    /\ LET rec == [workers[w] EXCEPT !.concat = TRUE,
                                     !.paths = Append(@, ConcatPath(workers[w].snap))]
       IN  \/ GenDone(w, rec)
           \/ Failed(w, rec)
    /\ UNCHANGED <<auxVars, envVars, cfgVars, py_engine, is_busy, flagVars>>

\* ---- _end_job_cleanup, run by the worker thread in `finally` ----

\* self._current_job = "idle"; self._reset_job_flags(), whose last statement
\* is self.btn_pause.config(text="PAUSAR"), run here by the worker thread.
W_cleanup_flags(w) ==
    /\ Live(w) /\ workers[w].pc = "cleanup"
    /\ current_job' = "idle"
    /\ stop_event' = FALSE
    /\ pause_event' = TRUE
    /\ workers' = [Wake(workers) EXCEPT ![w].pc = "cleanup_restart",
                                        ![w].direct = TRUE]
    /\ UNCHANGED <<auxVars, envVars, cfgVars, py_engine, is_busy, restart_after_stop, afterQ>>

\* if self._restart_after_stop: ... self.after(50, self._reinit_pyttsx3); the
\* worker function returns and its thread ends.
W_cleanup_restart(w) ==
    /\ Live(w) /\ workers[w].pc = "cleanup_restart"
    /\ IF restart_after_stop
       THEN /\ restart_after_stop' = FALSE
            /\ Post(CbLater("reinit_pyttsx3", 0))
       ELSE UNCHANGED <<restart_after_stop, afterQ>>
    /\ workers' = [workers EXCEPT ![w] = Gone]
    /\ UNCHANGED <<auxVars, envVars, cfgVars, py_engine, is_busy, pause_event, stop_event,
                   current_job>>

---------------------------------------------------------------------------
\* The next-state relations: the operator, the UI thread's callbacks and the
\* worker threads, interleaved.

\* The operator's actions on the settings tab.
SettingsOps ==
    \/ edit_staged
    \/ browse_outdir
    \/ save_and_apply_config
    \/ dismiss_dialog
    \/ restart_engine

\* The operator's actions on a running job.
JobControls ==
    \/ pause_job
    \/ stop_job

Callbacks ==
    \/ cb_set_busy
    \/ cb_read_done
    \/ cb_reinit_pyttsx3

WorkerStep(w) ==
    \/ R_start(w)
    \/ R_apply(w)
    \/ R_chk1(w)
    \/ R_gate(w)
    \/ R_chk2(w)
    \/ R_begin(w)
    \/ R_say(w)
    \/ R_after(w)
    \/ G_start(w)
    \/ G_chk1(w)
    \/ G_gate(w)
    \/ G_chk2(w)
    \/ G_synth(w)
    \/ G_concat(w)
    \/ W_cleanup_flags(w)
    \/ W_cleanup_restart(w)

\* No job was started yet.
NoJobYet == \A w \in Jobs : ~Started(w)

\* The first press of LER AGORA or of GERAR MP3, on a text of any length.
FirstTrigger ==
    \/ \E total \in 1..MaxChunks : NoJobYet /\ read_now(total)
    \/ \E total \in 1..MaxChunks, ok_ff \in BOOLEAN :
         NoJobYet /\ generate_mp3(total, ok_ff)

\* Any press of LER AGORA or of GERAR MP3, on a short text.
AnyTrigger ==
    \/ \E total \in 1..RaceChunks : read_now(total)
    \/ \E total \in 1..RaceChunks, ok_ff \in BOOLEAN : generate_mp3(total, ok_ff)

\* One job, of up to MaxChunks chunks, and every action of the settings tab.
Next ==
    \/ SettingsOps
    \/ JobControls
    \/ FirstTrigger
    \/ Callbacks
    \/ \E w \in Jobs : WorkerStep(w)

Spec == Init /\ [][Next]_vars

\* Up to MaxJobs jobs, of up to RaceChunks chunks each, with the settings
\* left as they were loaded.
RaceNext ==
    \/ JobControls
    \/ AnyTrigger
    \/ Callbacks
    \/ \E w \in Jobs : WorkerStep(w)

RaceSpec == Init /\ [][RaceNext]_vars

\* A press of LER AGORA or of GERAR MP3, on a short text, by an operator who
\* waits for the worker of the job before to return.
NextTrigger ==
    \/ \E total \in 1..RaceChunks : LiveJobs = {} /\ read_now(total)
    \/ \E total \in 1..RaceChunks, ok_ff \in BOOLEAN :
         LiveJobs = {} /\ generate_mp3(total, ok_ff)

\* Up to MaxJobs jobs, of up to RaceChunks chunks each, one after the other.
SeqNext ==
    \/ JobControls
    \/ NextTrigger
    \/ Callbacks
    \/ \E w \in Jobs : WorkerStep(w)

\* Scheduling: a thread that can take a step takes it (blocking calls on the
\* backends return), and the Tk event loop runs every callback that is due.
Scheduling ==
    /\ \A w \in Jobs : WF_vars(WorkerStep(w))
    /\ WF_vars(Callbacks)

FairSpec == Init /\ [][SeqNext]_vars /\ Scheduling

\* The operator resumes or cancels a job that waits at the pause gate.
Unpause ==
    /\ \E w \in Jobs : workers[w].pc = "blocked"
    /\ JobControls

\* The values the backend selector offers (Combobox values) and the render
\* worker knows by name.
KnownBackends == {"edge", "gtts"}

\* What load_config() can return: the values of the known keys of the JSON
\* file are taken as they are, so a file written by hand or by another
\* version can hold a backend name this version does not know.
ConfigFiles == {LoadedCfg, [LoadedCfg EXCEPT !.mp3_backend = "azure"]}

CfgInit == (\E c \in ConfigFiles : InitFrom(c)) /\ call = [fn |-> "none"]

\* The settings tab alone, from every configuration file.
CfgSpec == CfgInit /\ [][SettingsOps]_vars

---------------------------------------------------------------------------
\* The module's text utilities.  A text is a sequence of characters; indexes
\* and slices are those of the source (from 0, end excluded).

\* The characters str.strip() removes and \s matches.
Whitespace == {" ", "\t", "\n", "\r"}

\* q[a:b]
Slice(q, a, b) == SubSeq(q, a + 1, b)

\* q.strip(cs): q without its leading and trailing characters of cs.
StripOf(q, cs) ==
    IF \A k \in 1..Len(q) : q[k] \in cs THEN <<>>
    ELSE LET a == CHOOSE k \in 1..Len(q) :
                      q[k] \notin cs /\ \A j \in 1..(k - 1) : q[j] \in cs
             b == CHOOSE k \in 1..Len(q) :
                      q[k] \notin cs /\ \A j \in (k + 1)..Len(q) : q[j] \in cs
         IN  SubSeq(q, a, b)

\* q.strip()
StripWs(q) == StripOf(q, Whitespace)

\* q.rfind(c) for the characters of cs: the last index whose character is in
\* cs, or -1.
RFind(q, cs) ==
    IF \A k \in 1..Len(q) : q[k] \notin cs THEN -1
    ELSE (CHOOSE k \in 1..Len(q) :
              q[k] \in cs /\ \A j \in (k + 1)..Len(q) : q[j] \notin cs) - 1

\* q without the characters at the indexes of D, the others in their order.
Dropping(q, D) ==
    LET src(j) == CHOOSE k \in j..(j + Cardinality(D)) :
                      k \notin D /\ k - Cardinality({d \in D : d < k}) = j
    IN  IF D = {} THEN q
        ELSE [j \in 1..(Len(q) - Cardinality(D)) |-> q[src(j)]]

\* re.sub(r"\r\n", "\n", text): every "\r" that a "\n" follows is dropped.
NormalizeNewlines(q) ==
    Dropping(q, {k \in 1..(Len(q) - 1) : q[k] = "\r" /\ q[k + 1] = "\n"})

\* ---- smart_split_text ----

\* sentence_breaks = set(".!?;:")
SentenceBreaks == {".", "!", "?", ";", ":"}

\* max_chars = max(300, int(max_chars))
ClampMaxChars(max_chars) == Max(MinChunkChars, max_chars)

\* int(max_chars * 0.60) and int(max_chars * 0.55): for the bounds drawn
\* (300 to 1200 were compared) the float product truncates to the exact
\* quotient.
NewlineFloor(max_chars) == (max_chars * 60) \div 100
BreakFloor(max_chars) == (max_chars * 55) \div 100

\* A cut at the latest of the breaks that qualify, whatever their kind.
CutOfLatest(window, max_chars) ==
    LET nl == RFind(window, {"\n"})
        far == Slice(window, BreakFloor(max_chars) + 1, Len(window))
        k == RFind(far, SentenceBreaks)
        sp == RFind(window, {" "})
        cands == (IF nl >= NewlineFloor(max_chars) THEN {nl + 1} ELSE {})
                 \cup (IF k # -1 THEN {BreakFloor(max_chars) + 1 + k + 1} ELSE {})
                 \cup (IF sp >= BreakFloor(max_chars) THEN {sp + 1} ELSE {})
    IN  IF cands = {} THEN Len(window)
        ELSE CHOOSE c \in cands : \A d \in cands : d <= c

\* The cut of one window: after its last newline when that is far enough,
\* else after its last sentence break past the floor, else after its last
\* space when that is far enough, else the whole window.
CutOf(window, max_chars) ==
    LET nl == RFind(window, {"\n"})
        far == Slice(window, BreakFloor(max_chars) + 1, Len(window))
        k == RFind(far, SentenceBreaks)
        sp == RFind(window, {" "})
    IN  IF nl >= NewlineFloor(max_chars) THEN nl + 1
        ELSE IF k # -1 THEN BreakFloor(max_chars) + 1 + k + 1
        ELSE IF sp >= BreakFloor(max_chars) THEN sp + 1
        ELSE Len(window)

\* chunk = s[i : i + cut].strip(), taken without the strip by RawChunk.
RawChunk(s, i, cut) == Slice(s, i, i + cut)

ChunkOf(s, i, cut) == StripWs(Slice(s, i, i + cut))

\* i = i + cut, which SkipStart overshoots by one character.
SkipStart(i, cut) == i + cut + 1

\* A loop whose scan position is not moved by the cut.
StayStart(i, cut) == i

NextStart(i, cut) == i + cut

\* if chunk: chunks.append(chunk)
AppendChunk(chunks, chunk) == IF chunk # <<>> THEN Append(chunks, chunk) ELSE chunks

\* ---- sanitize_filename ----

\* re.sub(r'[\\/*?:"<>|]', "_", name)
Forbidden == {"\\", "/", "*", "?", ":", "\"", "<", ">", "|"}

ReplaceForbidden(q) == [k \in 1..Len(q) |-> IF q[k] \in Forbidden THEN "_" ELSE q[k]]

\* re.sub(r"\s+", " ", name): every run of whitespace becomes one space.
CollapseWs(q) ==
    LET blank == [k \in 1..Len(q) |-> IF q[k] \in Whitespace THEN " " ELSE q[k]]
    IN  Dropping(blank, {k \in 2..Len(q) : q[k] \in Whitespace
                                               /\ q[k - 1] \in Whitespace})

\* name[:max_len], for max_len >= 0
Truncate(q, max_len) == SubSeq(q, 1, Min(max_len, Len(q)))

sanitize_filename(name, max_len) ==
    LET n1 == StripWs(name)
        n2 == ReplaceForbidden(n1)
        n3 == CollapseWs(n2)
        n4 == StripOf(n3, {" ", "."})
        n5 == IF n4 = <<>> THEN <<"a", "u", "d", "i", "o">> ELSE n4
    IN  Truncate(n5, max_len)

\* ---- unique_path ----

\* str(i) for i >= 0
DigitChars == <<"0", "1", "2", "3", "4", "5", "6", "7", "8", "9">>

RECURSIVE Decimal(_)
Decimal(i) ==
    IF i < 10 THEN <<DigitChars[i + 1]>>
    ELSE Decimal(i \div 10) \o <<DigitChars[(i % 10) + 1]>>

Mp3 == <<".", "m", "p", "3">>

\* f"{base}.mp3"
PlainName(base) == base \o Mp3

\* f"{base} ({i}).mp3"
NumberedName(base, i) == base \o <<" ", "(">> \o Decimal(i) \o <<")">> \o Mp3

\* i = 2
FirstIndex == 2

\* i += 1, which SkipIndex replaces by a step of two.
SkipIndex(i) == i + 2

NextIndex(i) == i + 1

---------------------------------------------------------------------------
\* Calls of the text utilities.  `call` is the frame of the call in progress:
\* its arguments, its local variables and, at pc "return", its result.

Run(c, n) == [k \in 1..n |-> c]

RECURSIVE Flatten(_)
Flatten(bs) == IF bs = <<>> THEN <<>> ELSE Head(bs) \o Flatten(Tail(bs))

\* The texts of up to n pieces of ps, in every order.
Pieced(ps, n) == {Flatten(bs) : bs \in UNION {[1..k -> ps] : k \in 0..n}}

\* A paragraph that ends 190 characters into the text, and a short sentence
\* with the blank that follows it.
Paragraph == Run("a", 190) \o <<"\n">> \o Run("b", 20) \o <<".", " ">>

\* The pieces of the texts split: runs of letters shorter and longer than the
\* floors of a window and one that ends at the floor of the sentence breaks,
\* separators, runs of blanks, and a paragraph.
TextPieces ==
    {Run("a", 170), Run("a", 299), Run("b", 130), Run(" ", 200),
     <<" ">>, <<"\n">>, <<".">>, <<"\r", "\n">>,
     Run("a", (MinChunkChars * 55) \div 100), <<".", " ">>, Paragraph}

\* The pieces of the names sanitized.
NamePieces ==
    {<<"a">>, Run("b", 118), <<" ">>, <<".">>, <<"/">>, <<"\t">>, <<"?">>}

SplitCalls ==
    {[fn |-> "smart_split_text", pc |-> "call", text |-> t, arg |-> m,
      s |-> <<>>, max_chars |-> 0, i |-> 0, chunks |-> <<>>] :
        t \in Pieced(TextPieces, MaxPieces), m \in {0, MinChunkChars, 320}}

SanitizeCalls ==
    {[fn |-> "sanitize_filename", pc |-> "call", name |-> n, max_len |-> m,
      out |-> <<>>] :
        n \in Pieced(NamePieces, MaxNameParts), m \in {3, DefaultMaxLen}}

\* The files of the output folder: those unique_path may name for "r", and
\* others.
FilePool ==
    {PlainName(<<"r">>)} \cup {NumberedName(<<"r">>, j) : j \in 2..MaxFiles}
        \cup {<<"r">>, PlainName(<<"r", "_">>), PlainName(<<"a", "u", "d", "i", "o">>)}

UniquePathCalls ==
    {[fn |-> "unique_path", pc |-> "call", files |-> fs, filename |-> n,
      base |-> <<>>, i |-> 0, out |-> <<>>] :
        fs \in SUBSET FilePool,
        n \in {<<"r">>, <<" ", "r", ".">>, <<"r", "?">>, <<" ", ".">>}}

\* s = re.sub(r"\r\n", "\n", text).strip(); if not s: return []
split_enter ==
    /\ call.fn = "smart_split_text" /\ call.pc = "call"
    /\ LET s == StripWs(NormalizeNewlines(call.text)) IN
       call' = IF s = <<>> THEN [call EXCEPT !.pc = "return"]
               ELSE [call EXCEPT !.pc = "loop", !.s = s,
                                 !.max_chars = ClampMaxChars(call.arg)]
    /\ UNCHANGED appVars

\* The iteration whose window reaches the end of the text.
split_last ==
    /\ call.fn = "smart_split_text" /\ call.pc = "loop"
    /\ LET n == Len(call.s)
           end == Min(call.i + call.max_chars, n)
       IN  /\ call.i < n /\ end = n
           /\ call' = [call EXCEPT
                          !.pc = "return",
                          !.chunks = AppendChunk(@, ChunkOf(call.s, call.i, end - call.i))]
    /\ UNCHANGED appVars

\* An iteration that cuts its window, and the loop test that follows it.
split_cut ==
    /\ call.fn = "smart_split_text" /\ call.pc = "loop"
    /\ LET n == Len(call.s)
           end == Min(call.i + call.max_chars, n)
           cut == CutOf(Slice(call.s, call.i, end), call.max_chars)
           j == NextStart(call.i, cut)
       IN  /\ call.i < n /\ end # n
           /\ call' = [call EXCEPT
                          !.pc = IF j < n THEN "loop" ELSE "return",
                          !.i = j,
                          !.chunks = AppendChunk(@, ChunkOf(call.s, call.i, cut))]
    /\ UNCHANGED appVars

sanitize_call ==
    /\ call.fn = "sanitize_filename" /\ call.pc = "call"
    /\ call' = [call EXCEPT !.pc = "return",
                            !.out = sanitize_filename(call.name, call.max_len)]
    /\ UNCHANGED appVars

\* base = sanitize_filename(filename) and the test of f"{base}.mp3"
unique_path_first ==
    /\ call.fn = "unique_path" /\ call.pc = "call"
    /\ LET base == sanitize_filename(call.filename, DefaultMaxLen) IN
       call' = IF PlainName(base) \notin call.files
               THEN [call EXCEPT !.pc = "return", !.base = base,
                                 !.out = PlainName(base)]
               ELSE [call EXCEPT !.pc = "loop", !.base = base, !.i = FirstIndex]
    /\ UNCHANGED appVars

\* One iteration of `while True`.
unique_path_next ==
    /\ call.fn = "unique_path" /\ call.pc = "loop"
    /\ LET candidate == NumberedName(call.base, call.i) IN
       call' = IF candidate \notin call.files
               THEN [call EXCEPT !.pc = "return", !.out = candidate]
               ELSE [call EXCEPT !.i = NextIndex(call.i)]
    /\ UNCHANGED appVars

\* The calls of the text utilities, each from its arguments to its return,
\* with the controller at rest.
UtilInit ==
    /\ AppInit
    /\ pyttsx3 /\ edge_tts /\ py_engine.alive
    /\ call \in SplitCalls \cup SanitizeCalls \cup UniquePathCalls

UtilNext ==
    \/ split_enter
    \/ split_last
    \/ split_cut
    \/ sanitize_call
    \/ unique_path_first
    \/ unique_path_next

UtilSpec == UtilInit /\ [][UtilNext]_vars

---------------------------------------------------------------------------
\* The claims.

\* C1: at most one worker thread is live in every reachable state: a trigger
\* that arrives while a worker is live starts no second worker.
C1_OneWorkerLive == Cardinality(LiveJobs) <= 1

\* C2: a job for which stop_job was accepted before its outcome was decided
\* is never reported as completed, and a render job so stopped runs no
\* concatenation and writes no output file.
C2_StoppedNeverCompletes ==
    \A w \in Jobs :
        workers[w].stopAcc =>
            /\ workers[w].outcome # "completed"
            /\ ~workers[w].concat
            /\ ~workers[w].output

\* C8: in every idle state (busy flag false, no worker live) the pause gate is
\* open, the stop flag is clear and restart_after_stop is not set.
C8_IdleFlagsReset ==
    (~is_busy /\ LiveJobs = {}) =>
        (pause_event /\ ~stop_event /\ ~restart_after_stop)

\* C3: once stop_job was accepted for a job, its worker thread eventually
\* returns (it leaves the chunk loop and runs _end_job_cleanup), with no
\* further action of the operator required and whatever pause_job does
\* before or after the stop.
C3_StopEndsWorker ==
    \A w \in Jobs : (Live(w) /\ workers[w].stopAcc) ~> ~Live(w)

\* The step in which the worker thread of job w returns from _end_job_cleanup.
Returns(w) == Live(w) /\ workers'[w] = Gone

\* The engine restart _end_job_cleanup registers.
RestartCb == CbLater("reinit_pyttsx3", 0)

\* C4: a render job that was stopped while its worker waited at the pause
\* gate ends cancelled, and exactly one engine restart is scheduled for it:
\* the one its cleanup registers.
C4_PausedStopRestartsOnce ==
    [][\A w \in Jobs :
          (Returns(w) /\ workers[w].kind = "gen" /\ workers[w].stopPaused) =>
              /\ workers[w].outcome = "cancelled"
              /\ workers[w].reinits = 0
              /\ afterQ' = Append(afterQ, RestartCb)]_vars

\* C5: while a worker thread is live, no step changes the applied
\* configuration or the output directory: a commit attempted between the
\* trigger and the end of the worker is rejected.
C5_NoCommitWhileLive ==
    [][LiveJobs # {} => (cfg' = cfg /\ out_dir' = out_dir)]_vars

\* The parameters a chunk of job r is processed with when they are those of
\* the applied configuration at the trigger.
TriggerUse(r) ==
    IF r.kind = "read" THEN SpeakUse(r.trigEngine)
    ELSE SynthUse(GenSnapshot(r.trig, r.snap.out_dir, r.snap.ok_ff))

\* C6: every chunk of a job is processed with the parameters of the applied
\* configuration at the trigger (backend, voice, rate, pitch for a render;
\* offline voice and rate for a speak).
C6_ChunksUseTriggerConfig ==
    \A w \in Jobs :
        (Live(w) /\ workers[w].used # NoUse) => workers[w].used = TriggerUse(workers[w])

\* C7: only a successful save changes the applied configuration and the
\* output directory (an edit of the staged values does not), and a trigger
\* gives its worker the values of the applied configuration, not the staged
\* ones.
C7_StagedEditsInert ==
    [][/\ ~save_and_apply_config => (cfg' = cfg /\ out_dir' = out_dir)
       /\ \A w \in Jobs :
             (~Started(w) /\ workers'[w].kind = "gen") =>
                 /\ workers'[w].trig = cfg
                 /\ workers'[w].snap =
                        GenSnapshot(cfg, out_dir, workers'[w].snap.ok_ff)
       /\ \A w \in Jobs :
             (~Started(w) /\ workers'[w].kind = "read") =>
                 /\ workers'[w].trig = cfg
                 /\ workers'[w].snap = ReadSnapshot(cfg)]_vars

\* A render job processes a chunk with the applied backend while the staged
\* backend, edited and not saved, is another one.
C7_Witness ==
    /\ staged.mp3_backend # cfg.mp3_backend
    /\ \E w \in Jobs :
          /\ workers[w].kind = "gen"
          /\ workers[w].pc = "synth"
          /\ workers[w].snap.backend = cfg.mp3_backend
          /\ workers[w].used.backend = "edge"

\* C9: if the operator resumes or cancels every job that waits at the pause
\* gate, every started job eventually ends: its worker thread returns.
C9_JobsEnd ==
    SF_vars(Unpause) => \A w \in Jobs : Live(w) ~> ~Live(w)

\* C10: the cleanup of every job that ends cancelled registers an engine
\* restart.
C10_CancelledRestarts ==
    [][\A w \in Jobs :
          (Returns(w) /\ workers[w].outcome = "cancelled") =>
              afterQ' = Append(afterQ, RestartCb)]_vars

\* C11: the step in which a render job reports its successful completion
\* (every chunk synthesized, the concatenation returned) registers
\* _set_busy(False) and, after it, _reinit_pyttsx3.
C11_RenderSuccessReinits ==
    [][\A w \in Jobs :
          (/\ workers[w].kind = "gen"
           /\ workers[w].outcome = "none"
           /\ workers'[w].outcome = "completed") =>
              afterQ' = afterQ \o <<Cb("set_busy", 0), Cb("reinit_pyttsx3", 0)>>]_vars

\* A render job has reported its success and the engine restart it
\* registered waits in the queue behind the report.
C11_Witness ==
    \E w \in Jobs :
        /\ workers[w].kind = "gen"
        /\ workers[w].outcome = "completed"
        /\ workers[w].concat /\ workers[w].idx > workers[w].total
        /\ \E i \in 1..Len(afterQ) : afterQ[i] = Cb("reinit_pyttsx3", 0)

\* C12: a speak job for which stop_job was never accepted while its worker
\* was live, and which is reported as completed, registers no engine
\* restart, whatever happened before its trigger.
C12_SpeakSuccessNoReinit ==
    [][\A w \in Jobs :
          (/\ Returns(w)
           /\ workers[w].kind = "read"
           /\ workers[w].outcome = "completed"
           /\ ~workers[w].stopSeen) =>
              afterQ' = afterQ]_vars

\* C13: the cleanup of every speak job that ends failed (the offline engine
\* raised while the settings were applied or a chunk was spoken) registers an
\* engine restart, stop_job accepted or not.
C13_FailedSpeakRestarts ==
    [][\A w \in Jobs :
          (/\ Returns(w)
           /\ workers[w].kind = "read"
           /\ workers[w].outcome = "failed") =>
              afterQ' = Append(afterQ, RestartCb)]_vars

\* The progress values of q never decrease.
NonDecreasing(q) == \A k \in 1..(Len(q) - 1) : q[k] <= q[k + 1]

\* Job w has posted the progress value 100.
Shown100(w) == \E k \in 1..Len(workers[w].posts) : workers[w].posts[k] = 100

\* C14: the progress values a job posts never decrease, and a job that has
\* posted 100 has finished every chunk and is reported as completed (a job
\* that is still processing, or ends cancelled or failed, has not posted 100).
C14_ProgressMonotone ==
    \A w \in Jobs :
        Live(w) =>
            /\ NonDecreasing(workers[w].posts)
            /\ Shown100(w) =>
                  /\ workers[w].outcome = "completed"
                  /\ workers[w].idx > workers[w].total

\* C15: every progress value a render job posts before its concatenation has
\* returned is at most 95, and a render job that has posted 100 has run the
\* concatenation and written its output.
C15_RenderReserves5 ==
    \A w \in Jobs :
        workers[w].kind = "gen" =>
            /\ ~workers[w].output =>
                  \A k \in 1..Len(workers[w].posts) : workers[w].posts[k] <= 95
            /\ Shown100(w) => (workers[w].concat /\ workers[w].output)

\* A render job of MaxChunks chunks has posted 0 at its trigger, a value for
\* each chunk (95 for the last), 95 for the concatenation and 100 after it.
C15_Witness ==
    \E w \in Jobs :
        /\ workers[w].kind = "gen"
        /\ workers[w].total = MaxChunks
        /\ workers[w].output
        /\ Len(workers[w].posts) = MaxChunks + 3
        /\ workers[w].posts[MaxChunks + 1] = 95
        /\ workers[w].posts[MaxChunks + 2] = 95
        /\ workers[w].posts[MaxChunks + 3] = 100

\* The normalized trimmed form of a text.
Trimmed(text) == StripWs(NormalizeNewlines(text))

\* From index p on, s is the chunks of cs in their order, each one whole,
\* with nothing but whitespace before each of them and nothing after the last.
RECURSIVE Rejoins(_, _, _)
Rejoins(s, p, cs) ==
    IF cs = <<>> THEN p = Len(s)
    ELSE /\ \E k \in (p + 1)..Len(s) : s[k] \notin Whitespace
         /\ LET q == (CHOOSE k \in (p + 1)..Len(s) :
                         /\ s[k] \notin Whitespace
                         /\ \A j \in (p + 1)..(k - 1) : s[j] \in Whitespace) - 1
                c == Head(cs)
            IN  /\ q + Len(c) <= Len(s)
                /\ Slice(s, q, q + Len(c)) = c
                /\ Rejoins(s, q + Len(c), Tail(cs))

\* C16: the chunks smart_split_text returns are, in their order, consecutive
\* pieces of the normalized trimmed text that do not overlap, and all that
\* lies between two of them is whitespace: joined with that whitespace they
\* are the trimmed text, no character lost, repeated or moved.
C16_ChunksPartitionText ==
    (call.fn = "smart_split_text" /\ call.pc = "return") =>
        Rejoins(Trimmed(call.text), 0, call.chunks)

\* A text was cut in two chunks and a slice of whitespace between them, of
\* more than one character, was dropped.
C16_Witness ==
    /\ call.fn = "smart_split_text" /\ call.pc = "return"
    /\ Len(call.chunks) = 2
    /\ Len(call.s) > Len(call.chunks[1]) + Len(call.chunks[2]) + 1

\* C17: every chunk smart_split_text returns is non-empty, begins and ends
\* with a character that is no whitespace and has at most max(300, max_chars)
\* characters; a blank text gives no chunk.
C17_ChunksTrimmedBounded ==
    (call.fn = "smart_split_text" /\ call.pc = "return") =>
        /\ \A k \in 1..Len(call.chunks) :
              LET c == call.chunks[k] IN
              /\ c # <<>>
              /\ c[1] \notin Whitespace
              /\ c[Len(c)] \notin Whitespace
              /\ Len(c) <= Max(MinChunkChars, call.arg)
        /\ (\A k \in 1..Len(call.text) : call.text[k] \in Whitespace) =>
              call.chunks = <<>>

\* A text that ends with whitespace and has no break in its first window was
\* trimmed and cut at the bound asked for, which is over the floor.
C17_Witness ==
    /\ call.fn = "smart_split_text" /\ call.pc = "return"
    /\ call.arg > MinChunkChars
    /\ Len(call.text) > Len(call.s)
    /\ Len(call.chunks) = 2
    /\ Len(call.chunks[1]) = call.arg

\* C18: the name sanitize_filename returns is non-empty, has at most max_len
\* characters, none of them one of \ / * ? : " < > |, no two whitespace
\* characters in a row, and no space or dot at either end.
C18_SanitizedName ==
    (call.fn = "sanitize_filename" /\ call.pc = "return") =>
        LET out == call.out IN
        /\ out # <<>>
        /\ Len(out) <= call.max_len
        /\ \A k \in 1..Len(out) : out[k] \notin Forbidden
        /\ \A k \in 1..(Len(out) - 1) :
              ~(out[k] \in Whitespace /\ out[k + 1] \in Whitespace)
        /\ out[1] \notin {" ", "."}
        /\ out[Len(out)] \notin {" ", "."}

\* C19: unique_path returns f"{B}.mp3", B the sanitized name, when the folder
\* holds no such file, else f"{B} ({i}).mp3" for the least i >= 2 whose file
\* the folder does not hold; the folder never holds the file returned.
C19_UniquePath ==
    (call.fn = "unique_path" /\ call.pc = "return") =>
        LET B == sanitize_filename(call.filename, DefaultMaxLen) IN
        /\ call.out \notin call.files
        /\ IF PlainName(B) \notin call.files THEN call.out = PlainName(B)
           ELSE \E i \in 2..(Cardinality(call.files) + 2) :
                    /\ call.out = NumberedName(B, i)
                    /\ \A j \in 2..(i - 1) : NumberedName(B, j) \in call.files

\* The folder holds r.mp3 and every numbered file up to MaxFiles, and
\* unique_path returns the file numbered MaxFiles + 1.
C19_Witness ==
    /\ call.fn = "unique_path" /\ call.pc = "return"
    /\ PlainName(<<"r">>) \in call.files
    /\ call.out = NumberedName(<<"r">>, MaxFiles + 1)

\* C20: a render job whose backend is "edge" while edge_tts is not installed
\* synthesizes every chunk with gTTS and, when it is reported as completed,
\* its result text holds the warning that gTTS was used; with edge_tts
\* installed every chunk of such a job is synthesized with edge-tts and no
\* result text holds that warning.
C20_FallbackWarned ==
    \A w \in Jobs :
        workers[w].kind = "gen" =>
            /\ (workers[w].snap.backend = "edge" /\ ~edge_tts) =>
                  /\ workers[w].used # NoUse => workers[w].used.backend = "gtts"
                  /\ workers[w].outcome = "completed" =>
                        "edge-tts" \in workers[w].extra
            /\ (workers[w].snap.backend = "edge" /\ edge_tts) =>
                  (workers[w].used # NoUse => workers[w].used.backend = "edge")
            /\ edge_tts => "edge-tts" \notin workers[w].extra

\* A render job of MaxChunks chunks with the backend "edge" and no edge_tts
\* has synthesized its chunks with gTTS and completed with the warning.
C20_Witness ==
    \E w \in Jobs :
        /\ workers[w].kind = "gen"
        /\ workers[w].snap.backend = "edge" /\ ~edge_tts
        /\ workers[w].total = MaxChunks
        /\ workers[w].outcome = "completed"
        /\ workers[w].used.backend = "gtts"
        /\ "edge-tts" \in workers[w].extra

\* C21: a commit whose staged backend selector is not one of the known
\* values is rejected with a validation error and leaves the applied
\* configuration as it was.
C21_UnknownBackendRejected ==
    [][(save_and_apply_config
        /\ Lower(OrElse(Strip(staged.mp3_backend), "edge")) \notin KnownBackends)
       => (cfg' = cfg /\ out_dir' = out_dir /\ dialog' # "")]_vars

CutWindow == Slice(call.s, call.i, call.i + call.max_chars)

Cutting ==
    /\ call.fn = "smart_split_text"
    /\ call.pc = "loop"
    /\ call.i + call.max_chars < Len(call.s)

\* C23: when the window does not reach the end of the text and holds no
\* newline at index >= floor(0.60 * max_chars), and its last sentence
\* terminator is at index p >= floor(0.55 * max_chars), the cut falls right
\* after p; p = floor(0.55 * max_chars) included.
C23_BreakAtFloorCuts ==
    [][Cutting =>
         LET p == RFind(CutWindow, SentenceBreaks) IN
         (/\ RFind(CutWindow, {"\n"}) < (call.max_chars * 60) \div 100
          /\ p >= (call.max_chars * 55) \div 100)
         => call'.i = call.i + p + 1]_vars

\* C24: in every window that does not reach the end of the text the cut is
\* chosen by strict priority: after the last newline when it lies at index
\* >= floor(0.60 * max_chars); else after the last sentence terminator when
\* that one qualifies (it lies beyond index floor(0.55 * max_chars), as the
\* scan of the window reads it; the terminator at the floor itself is the
\* case of C23); else after the last space when it lies at index
\* >= floor(0.55 * max_chars); else at the window's length.  A later break of
\* lower priority never wins.
C24_CutByPriority ==
    [][Cutting =>
         LET nl == RFind(CutWindow, {"\n"})
             p == RFind(CutWindow, SentenceBreaks)
             sp == RFind(CutWindow, {" "})
             nlFloor == (call.max_chars * 60) \div 100
             floor == (call.max_chars * 55) \div 100
             cut == call'.i - call.i
         IN  /\ nl >= nlFloor => cut = nl + 1
             /\ (nl < nlFloor /\ p > floor) => cut = p + 1
             /\ (nl < nlFloor /\ p <= floor /\ sp >= floor) => cut = sp + 1
             /\ (nl < nlFloor /\ p <= floor /\ sp < floor) => cut = Len(CutWindow)]_vars

\* The first window was cut after a newline although a sentence terminator
\* and a space lie later in it.
C24_Witness ==
    /\ call.fn = "smart_split_text"
    /\ Len(call.chunks) = 1
    /\ call.i > 0
    /\ call.s[call.i] = "\n"
    /\ \E k \in (call.i + 1)..call.max_chars : call.s[k] \in SentenceBreaks
    /\ \E k \in (call.i + 1)..call.max_chars : call.s[k] = " "

\* C25: smart_split_text terminates for every text and bound.  The distance
\* Len(s) - i from the scan position to the end of the text is the variant
\* of the loop: an iteration that cuts moves the position forward by at least
\* one character and not past the end; control is at the head of the loop
\* only with text left, where an iteration can run; no more chunks are made
\* than the text has characters; and at the return the last window examined
\* reached the end of the text.
C25_SplitTerminates ==
    /\ [][Cutting => (call'.i >= call.i + 1 /\ call'.i <= Len(call.s))]_vars
    /\ [](call.fn = "smart_split_text" /\ call.pc = "loop"
            => call.i < Len(call.s))
    /\ [](call.fn = "smart_split_text" => Len(call.chunks) <= Len(call.s))
    /\ [](call.fn = "smart_split_text" /\ call.pc = "return" /\ call.s # <<>>
            => call.i + call.max_chars >= Len(call.s))

\* A call returned after three iterations.
C25_Witness ==
    /\ call.fn = "smart_split_text"
    /\ call.pc = "return"
    /\ Len(call.chunks) = 3
    /\ call.i > call.max_chars

\* The worker is inside say()/runAndWait() or the backend call of a chunk.
InChunk(w) == workers[w].pc \in {"say", "synth"}

\* C26: pause_job never interrupts a chunk in progress.  A pause_job step
\* leaves a worker inside a chunk where it is; a worker inside a chunk leaves
\* it only by the end of the chunk (the next iteration of its loop) or by an
\* exception of the engine or backend; and a worker comes to wait at the
\* gate only from the head of an iteration, before the chunk begins.
C26_PauseBetweenChunks ==
    [][\A w \in Jobs :
         /\ (pause_job /\ InChunk(w)) => workers'[w] = workers[w]
         /\ (InChunk(w) /\ workers'[w].pc # workers[w].pc)
              => \/ workers'[w].pc = "chk1" /\ workers'[w].idx = workers[w].idx + 1
                 \/ workers'[w].outcome = "failed"
         /\ (workers'[w].pc = "blocked" /\ workers[w].pc # "blocked")
              => workers[w].pc = "gate"]_vars

\* The gate was closed while the worker was inside its second chunk, after
\* the first one had ended.
C26_Witness ==
    \E w \in Jobs :
        /\ InChunk(w)
        /\ workers[w].idx = 2
        /\ ~pause_event
        /\ is_busy

\* C27: once pause_job has closed the gate the worker begins no chunk but the
\* one whose gate it had passed: it passes the gate only when the gate is
\* open, a chunk begins only right after the gate was passed, and a worker
\* that waits at the gate is released only by pause_job or stop_job.
C27_PausedUntilResumed ==
    [][\A w \in Jobs :
         /\ (workers[w].pc = "gate" /\ workers'[w].pc # "gate")
              => (workers'[w].pc = "blocked" \/ pause_event)
         /\ (workers'[w].pc \in {"say", "synth"} /\ ~InChunk(w))
              => workers[w].pc \in {"begin", "chk2"}
         /\ (workers'[w].pc = "begin" /\ workers[w].pc # "begin")
              => workers[w].pc = "chk2"
         /\ (workers'[w].pc = "chk2" /\ workers[w].pc # "chk2")
              => workers[w].pc \in {"gate", "blocked"}
         /\ (workers[w].pc = "blocked" /\ workers'[w].pc # "blocked")
              => (pause_job \/ stop_job)]_vars

\* C28: a worker thread changes presentation state only through callbacks it
\* registers with after(): no thread calls a widget method itself, on any
\* path, cleanup included.
C28_WorkerUsesAfter == \A w \in Jobs : ~workers[w].direct

\* C29: every stop_job accepted while a speak job is in progress calls the
\* engine's stop() when there is an engine, whatever the cleanup of the job
\* before does meanwhile; none accepted while a render job is in progress
\* calls it.
C29_StopReachesEngine ==
    \A w \in Jobs :
        /\ workers[w].kind = "read" => ~workers[w].engSkip
        /\ workers[w].kind = "gen" => ~workers[w].engStop

\* A job whose worker has not yet decided its outcome.
InProgress(w) == Live(w) /\ workers[w].outcome = "none"

\* C30: _reinit_pyttsx3 never tears down or replaces the engine handle and
\* never resets the busy flag while a job is in progress: a reinit that the
\* end of one job registered does not run during the job started after it.
C30_ReinitOnlyIdle ==
    [][(cb_reinit_pyttsx3 /\ pyttsx3) => \A w \in Jobs : ~InProgress(w)]_vars

\* A step that calls _reinit_pyttsx3: its callback, RESTART ENGINE, or a
\* commit that passed the validation.
ReinitCall ==
    \/ cb_reinit_pyttsx3
    \/ restart_engine
    \/ (save_and_apply_config /\ dialog' = dialog)

StreamCopyFailed(w) ==
    /\ workers[w].kind = "gen"
    /\ workers[w].outcome = "failed"
    /\ workers[w].paths = <<"ffmpeg">>

\* C32: a render job calls ffmpeg_status() once, at its trigger (the worker
\* holds the result before its first chunk and it never changes); its
\* concatenation is tried once, by concat_mp3_ffmpeg if and only if the
\* probe found ffmpeg and by concat_mp3_naive otherwise; a job whose
\* concat_mp3_ffmpeg raised has called nothing else and has no output.
C32_ProbeOnceSelectsPath ==
    /\ [](\A w \in Jobs :
            workers[w].kind = "gen" =>
                /\ workers[w].probes = 1
                /\ workers[w].concat <=> (workers[w].paths # <<>>)
                /\ workers[w].paths \in {<<>>, <<ConcatPath(workers[w].snap)>>}
                /\ workers[w].paths = <<"ffmpeg">> <=>
                       (workers[w].concat /\ workers[w].snap.ok_ff)
                /\ workers[w].paths = <<"naive">> <=>
                       (workers[w].concat /\ ~workers[w].snap.ok_ff)
                /\ StreamCopyFailed(w) => ~workers[w].output)
    /\ [][\A w \in Jobs :
            (workers[w].kind = "gen" /\ workers'[w].kind = "gen") =>
                /\ workers'[w].snap.ok_ff = workers[w].snap.ok_ff
                /\ workers'[w].probes = workers[w].probes]_vars

\* A render job of MaxChunks chunks whose probe found ffmpeg has synthesized
\* every chunk, called concat_mp3_ffmpeg, which raised, and ended failed.
C32_Witness ==
    \E w \in Jobs :
        /\ StreamCopyFailed(w)
        /\ workers[w].snap.ok_ff
        /\ workers[w].total = MaxChunks
        /\ workers[w].idx > workers[w].total
        /\ ~workers[w].output

\* A registered callback that ends with _set_busy(False).
ClearsBusy(cb) == cb.t = "read_done" \/ (cb.t = "set_busy" /\ cb.a = 0)

====
